---- MODULE Spec2Model ----
(***************************************************************************)
(* The MedicalReportAnalyzer component (src/pages/MedicalReportAnalyzer.jsx)*)
(* as a state machine.  Strings are sequences of one-character strings, so  *)
(* that splitting, lower-casing, substring search and the four regular      *)
(* expressions are computed character by character as the JavaScript does.  *)
(***************************************************************************)
EXTENDS Integers, Sequences, FiniteSets

(***************************************************************************)
(* Characters and the string primitives of JavaScript the component uses.   *)
(***************************************************************************)
UpperLetters == <<"A","B","C","D","E","F","G","H","I","J","K","L","M","N","O","P","Q","R","S","T","U","V","W","X","Y","Z">>

LowerLetters == <<"a","b","c","d","e","f","g","h","i","j","k","l","m","n","o","p","q","r","s","t","u","v","w","x","y","z">>

Digits == {"0","1","2","3","4","5","6","7","8","9"}

\* \s of a JavaScript regular expression, and the characters trim() removes
WhiteSpace == {" ", "\n", "\t", "\r"}

\* the class [:\s] of the key patterns
ColonOrSpace == WhiteSpace \cup {":"}

\* the class [-/] of the date pattern
DateSeparators == {"-", "/"}

Min(a, b) == IF a <= b THEN a ELSE b

\* String.prototype.toLowerCase, on one character
LowerChar(c) ==
    IF \E i \in 1..26 : UpperLetters[i] = c
    THEN LowerLetters[CHOOSE i \in 1..26 : UpperLetters[i] = c]
    ELSE c

\* String.prototype.toLowerCase
toLowerCase(s) == [i \in 1..Len(s) |-> LowerChar(s[i])]

\* the literal t stands in s at position i (case-sensitive)
MatchAt(s, t, i) ==
    /\ i >= 1
    /\ i + Len(t) - 1 <= Len(s)
    /\ \A j \in 1..Len(t) : s[i + j - 1] = t[j]

\* the literal t stands in s at position i under the regular expression flag i
MatchAtIgnoreCase(s, t, i) ==
    /\ i >= 1
    /\ i + Len(t) - 1 <= Len(s)
    /\ \A j \in 1..Len(t) : LowerChar(s[i + j - 1]) = LowerChar(t[j])

\* String.prototype.includes
includes(s, t) == \E i \in 1..(Len(s) - Len(t) + 1) : MatchAt(s, t, i)

\* the first index >= i of s whose character is outside class (Len(s)+1 if none):
\* where a greedy class* or class+ starting at i stops
RECURSIVE SkipWhile(_, _, _)
SkipWhile(s, i, class) ==
    IF i > Len(s) \/ s[i] \notin class THEN i ELSE SkipWhile(s, i + 1, class)

\* the first index >= i of s whose character is in class (Len(s)+1 if none)
RECURSIVE SkipUntil(_, _, _)
SkipUntil(s, i, class) ==
    IF i > Len(s) \/ s[i] \in class THEN i ELSE SkipUntil(s, i + 1, class)

\* String.prototype.trim
trim(s) ==
    LET keep == {i \in 1..Len(s) : s[i] \notin WhiteSpace}
    IN  IF keep = {} THEN <<>>
        ELSE SubSeq(s, CHOOSE i \in keep : \A j \in keep : i <= j,
                       CHOOSE i \in keep : \A j \in keep : i >= j)

\* Array.prototype.join of a list of strings
RECURSIVE join(_, _)
join(list, sep) ==
    IF list = <<>> THEN <<>>
    ELSE IF Len(list) = 1 THEN list[1]
    ELSE list[1] \o sep \o join(Tail(list), sep)

\* String.prototype.split on a one-character separator: the pieces between
\* the separators, in order (always at least one piece)
RECURSIVE split(_, _)
split(s, sep) ==
    LET at == SkipUntil(s, 1, {sep})
    IN  IF at > Len(s) THEN <<s>>
        ELSE <<SubSeq(s, 1, at - 1)>> \o split(SubSeq(s, at + 1, Len(s)), sep)

\* Array.prototype.filter: the elements of list that satisfy keep, in order
RECURSIVE filter(_, _)
filter(list, keep) ==
    IF list = <<>> THEN <<>>
    ELSE (IF list[1] \in keep THEN <<list[1]>> ELSE <<>>) \o filter(Tail(list), keep)

(***************************************************************************)
(* MEDICAL_TERMS: the two fixed vocabularies.                               *)
(***************************************************************************)
MEDICAL_TERMS ==
    [conditions |-> <<
        <<"d","i","a","b","e","t","e","s">>,
        <<"h","y","p","e","r","t","e","n","s","i","o","n">>,
        <<"c","a","n","c","e","r">>,
        <<"h","e","a","r","t"," ","d","i","s","e","a","s","e">>,
        <<"a","r","t","h","r","i","t","i","s">>,
        <<"a","s","t","h","m","a">>,
        <<"d","e","p","r","e","s","s","i","o","n">>,
        <<"a","l","z","h","e","i","m","e","r","'","s">> >>,
     riskFactors |-> <<
        <<"o","b","e","s","i","t","y">>,
        <<"s","m","o","k","i","n","g">>,
        <<"a","l","c","o","h","o","l">>,
        <<"s","e","d","e","n","t","a","r","y"," ","l","i","f","e","s","t","y","l","e">>,
        <<"h","i","g","h"," ","c","h","o","l","e","s","t","e","r","o","l">>,
        <<"f","a","m","i","l","y"," ","h","i","s","t","o","r","y">> >>]

(***************************************************************************)
(* extractKeyInformations: the four patterns, each matched at the leftmost  *)
(* position of the content where it matches (String.prototype.match without *)
(* the g flag).  A capture is a pair <<first, last>> of indices, <<0, 0>>   *)
(* when the pattern does not match at the position tried.                   *)
(***************************************************************************)
NoCapture == <<0, 0>>

\* label [:\s]* ([^\n]+) tried at the index c0 that follows the label: the
\* class is greedy and gives characters back until one that is not a
\* newline can start the capture, which then runs to the end of its line
RestOfLineCapture(s, c0) ==
    LET c     == SkipWhile(s, c0, ColonOrSpace)
        first == {p \in c0..Min(c, Len(s)) : s[p] # "\n"}
    IN  IF first = {} THEN NoCapture
        ELSE LET p == CHOOSE q \in first : \A r \in first : q >= r
             IN  <<p, SkipUntil(s, p, {"\n"}) - 1>>

\* /patient\s*name[:\s]*([^\n]+)/i tried at position i
PatientNameAt(s, i) ==
    IF ~MatchAtIgnoreCase(s, <<"p","a","t","i","e","n","t">>, i) THEN NoCapture
    ELSE LET b == SkipWhile(s, i + 7, WhiteSpace)
         IN  IF ~MatchAtIgnoreCase(s, <<"n","a","m","e">>, b) THEN NoCapture
             ELSE RestOfLineCapture(s, b + 4)

\* /age[:\s]*(\d+)/i tried at position i
AgeAt(s, i) ==
    IF ~MatchAtIgnoreCase(s, <<"a","g","e">>, i) THEN NoCapture
    ELSE LET c == SkipWhile(s, i + 3, ColonOrSpace)
             e == SkipWhile(s, c, Digits)
         IN  IF e = c THEN NoCapture ELSE <<c, e - 1>>

\* /gender[:\s]*([^\n]+)/i tried at position i
GenderAt(s, i) ==
    IF ~MatchAtIgnoreCase(s, <<"g","e","n","d","e","r">>, i) THEN NoCapture
    ELSE RestOfLineCapture(s, i + 6)

\* /date[:\s]*(\d{1,2}[-/]\d{1,2}[-/]\d{2,4})/i tried at position i
DateAt(s, i) ==
    IF ~MatchAtIgnoreCase(s, <<"d","a","t","e">>, i) THEN NoCapture
    ELSE LET c  == SkipWhile(s, i + 4, ColonOrSpace)
             e1 == SkipWhile(s, c, Digits)
             e2 == SkipWhile(s, e1 + 1, Digits)
             e3 == SkipWhile(s, e2 + 1, Digits)
         IN  IF /\ e1 - c \in 1..2
                /\ e1 <= Len(s) /\ s[e1] \in DateSeparators
                /\ e2 - (e1 + 1) \in 1..2
                /\ e2 <= Len(s) /\ s[e2] \in DateSeparators
                /\ e3 - (e2 + 1) >= 2
             THEN <<c, e2 + Min(e3 - (e2 + 1), 4)>>
             ELSE NoCapture

keyPatternLabels ==
    << <<"P","a","t","i","e","n","t"," ","N","a","m","e">>,
       <<"A","g","e">>,
       <<"G","e","n","d","e","r">>,
       <<"D","a","t","e">> >>

\* pattern number n of keyPatterns tried at position i
keyPatternAt(n, s, i) ==
    CASE n = 1 -> PatientNameAt(s, i)
      [] n = 2 -> AgeAt(s, i)
      [] n = 3 -> GenderAt(s, i)
      [] n = 4 -> DateAt(s, i)

NotFound == <<"N","o","t"," ","F","o","u","n","d">>

\* keyPatternValue as it would be without .trim()
keyPatternValueUntrimmed(n, content) ==
    LET hits == {i \in 1..Len(content) : keyPatternAt(n, content, i) # NoCapture}
    IN  IF hits = {} THEN NotFound
        ELSE LET i == CHOOSE h \in hits : \A g \in hits : h <= g
                 m == keyPatternAt(n, content, i)
             IN  SubSeq(content, m[1], m[2])

\* content.match(pattern.regex), then match ? match[1].trim() : 'Not Found'
keyPatternValue(n, content) ==
    LET hits == {i \in 1..Len(content) : keyPatternAt(n, content, i) # NoCapture}
    IN  IF hits = {} THEN NotFound
        ELSE LET i == CHOOSE h \in hits : \A g \in hits : h <= g
                 m == keyPatternAt(n, content, i)
             IN  trim(SubSeq(content, m[1], m[2]))

extractKeyInformations(content) ==
    [n \in 1..4 |-> [label |-> keyPatternLabels[n],
                     value |-> keyPatternValue(n, content)]]

(***************************************************************************)
(* calculateConfidence and generateRecommendations.                         *)
(***************************************************************************)
\* (content.match(new RegExp(term, 'gi')) || []).length: the matches of a
\* global regular expression are found left to right, each search resuming
\* after the end of the previous match
RECURSIVE termCountFrom(_, _, _)
termCountFrom(content, term, i) ==
    IF i + Len(term) - 1 > Len(content) THEN 0
    ELSE IF MatchAtIgnoreCase(content, term, i)
         THEN 1 + termCountFrom(content, term, i + Len(term))
         ELSE termCountFrom(content, term, i + 1)

\* calculateConfidence as it would be without Math.min
calculateConfidenceUncapped(content, term) ==
    termCountFrom(content, term, 1) * 20

calculateConfidence(content, term) ==
    Min(termCountFrom(content, term, 1) * 20, 100)

\* generateRecommendations as it would be if the default line were pushed
\* whenever no condition matched (its test on conditions, not on the list built)
generateRecommendationsDefaultOnNoCondition(conditions, riskFactors) ==
    LET sep == <<",", " ">>
    IN  (IF Len(conditions) > 0
         THEN << [line |-> "specialist", list |-> join(conditions, sep)] >>
         ELSE <<>>)
        \o (IF Len(riskFactors) > 0
            THEN << [line |-> "lifestyle", list |-> join(riskFactors, sep)],
                    [line |-> "checkup", list |-> <<>>] >>
            ELSE <<>>)
        \o (IF Len(conditions) = 0
            THEN << [line |-> "none", list |-> <<>>] >>
            ELSE <<>>)

\* a recommendation line: the fixed sentence (named by its kind) and the
\* joined list interpolated into it
generateRecommendations(conditions, riskFactors) ==
    LET sep == <<",", " ">>
        specialist ==
            IF Len(conditions) > 0
            THEN << [line |-> "specialist", list |-> join(conditions, sep)] >>
            ELSE <<>>
        lifestyle ==
            IF Len(riskFactors) > 0
            THEN << [line |-> "lifestyle", list |-> join(riskFactors, sep)],
                    [line |-> "checkup", list |-> <<>>] >>
            ELSE <<>>
        recommendations == specialist \o lifestyle
    IN  IF Len(recommendations) = 0
        THEN << [line |-> "none", list |-> <<>>] >>
        ELSE recommendations

(***************************************************************************)
(* The files a user can select.  A file has a name, a declared type, a     *)
(* size in bytes and its bytes: the text they decode to, or the workbook    *)
(* (sheets of rows of cells) XLSX.read builds from them, or bytes XLSX.read *)
(* rejects.  The component never inspects a File beyond these.              *)
(***************************************************************************)
Files == {"report", "NOTES", "data", "book", "broken", "scan", "txt", "plain"}

\* reportFile before the first upload (useState(null))
null == "null"

FileName(f) ==
    CASE f = "report" -> <<"r",".","t","x","t">>
      [] f = "NOTES"  -> <<"N",".","T","X","T">>
      [] f = "data"   -> <<"d",".","v","2",".","c","s","v">>
      [] f = "book"   -> <<"b",".","x","l","s","x">>
      [] f = "broken" -> <<"c",".","x","l","s">>
      [] f = "scan"   -> <<"s",".","p","d","f">>
      [] f = "txt"    -> <<"t","x","t">>
      [] f = "plain"  -> <<"p",".","t","x","t">>

FileType(f) ==
    CASE f \in {"report", "NOTES", "plain"} -> "text/plain"
      [] f = "data"   -> "text/csv"
      [] f = "book"   -> "application/vnd.openxmlformats-officedocument.spreadsheetml.sheet"
      [] f = "broken" -> "application/vnd.ms-excel"
      [] f = "scan"   -> "application/pdf"
      [] f = "txt"    -> ""

FileSize(f) ==
    CASE f = "report" -> 1536
      [] f = "NOTES"  -> 7
      [] f = "data"   -> 20
      [] f = "book"   -> 6149
      [] f = "broken" -> 512
      [] f = "scan"   -> 90000
      [] f = "txt"    -> 1029
      [] f = "plain"  -> 1536

\* what FileReader.readAsText (and Papa's own read) decodes the bytes to
FileText(f) ==
    CASE f = "report" -> <<"A","g","e",":"," ","4","7","\n","D","i","a","b","e","t","e","s",","," ","d","i","a","b","e","t","e","s">>
      [] f = "NOTES"  -> <<"s","m","o","k","i","n","g">>
      [] f = "data"   -> <<"h","e","a","r","t",",","d","i","s","e","a","s","e","\n","a","s","t","h","m","a">>
      [] f = "txt"    -> <<"C","a","n","c","e","r">>
      [] f = "plain"  -> <<"a","l","l"," ","w","e","l","l">>

\* XLSX.read throws on these bytes
Unreadable(f) == f = "broken"

\* workbook.SheetNames mapped to workbook.Sheets: each sheet its rows of cells
FileWorkbook(f) ==
    CASE f = "book" -> << << <<<<"a","g","e">>, <<"4","7">>>> >>,
                          << <<<<"c","a","n","c","e","r">>>>, <<<<"o","b","e","s","i","t","y">>, <<"c","a","n","c","e","r">>>> >> >>

(***************************************************************************)
(* File ingestion: parseTextFile, parseCSV, parseExcel and the dispatch of  *)
(* parseFile.                                                               *)
(***************************************************************************)
\* fileExtension as it would be without .toLowerCase()
fileExtensionCaseSensitive(f) ==
    LET pieces == split(FileName(f), ".")
    IN  pieces[Len(pieces)]

\* file.name.split('.').pop().toLowerCase()
fileExtension(f) ==
    LET pieces == split(FileName(f), ".")
    IN  toLowerCase(pieces[Len(pieces)])

\* the switch of parseFile: the reader started for a file, "none" for the
\* default branch, which throws 'Unsupported file type'
readerFor(f) ==
    LET ext == fileExtension(f)
    IN  CASE ext = <<"t","x","t">> -> "text"
          [] ext = <<"c","s","v">> -> "csv"
          [] ext = <<"x","l","s","x">> -> "excel"
          [] ext = <<"x","l","s">> -> "excel"
          [] OTHER -> "none"

\* reader.onload = (e) => resolve(e.target.result)
parseTextFile(f) == FileText(f)

\* Papa.parse of unquoted text into rows of fields, then
\* results.data.map(row => row.join(' ')).join('\n')
parseCSV(f) ==
    LET rows == split(FileText(f), "\n")
        data == [r \in 1..Len(rows) |-> split(rows[r], ",")]
    IN  join([r \in 1..Len(data) |-> join(data[r], <<" ">>)], <<"\n">>)

\* XLSX.utils.sheet_to_csv: cells joined by ',', rows by a line feed
sheet_to_csv(worksheet) ==
    join([r \in 1..Len(worksheet) |-> join(worksheet[r], <<",">>)], <<"\n">>)

\* workbook.SheetNames.forEach(... content += sheet_to_csv(worksheet))
parseExcel(f) ==
    LET workbook == FileWorkbook(f)
    IN  join([n \in 1..Len(workbook) |-> sheet_to_csv(workbook[n])], <<>>)

\* the content the started reader resolves with
parsedContent(f) ==
    CASE readerFor(f) = "text"  -> parseTextFile(f)
      [] readerFor(f) = "csv"   -> parseCSV(f)
      [] readerFor(f) = "excel" -> parseExcel(f)

(***************************************************************************)
(* performDetailedAnalysis.  reportFile is the value of the state variable  *)
(* in the render whose closure runs: reading .type of null throws.          *)
(***************************************************************************)
\* the decimal digits of a natural number
RECURSIVE decimal(_)
decimal(n) ==
    IF n < 10 THEN <<SubSeq(<<"0","1","2","3","4","5","6","7","8","9">>, n + 1, n + 1)[1]>>
    ELSE decimal(n \div 10) \o decimal(n % 10)

\* `${(size / 1024).toFixed(2)} KB`: size / 1024 is exact in binary floating
\* point, and toFixed rounds it to the nearest hundredth, a tie upwards
fileSizeKB(size) ==
    LET hundredths == (size * 100 + 512) \div 1024
    IN  decimal(hundredths \div 100) \o <<".">>
          \o decimal((hundredths % 100) \div 10) \o decimal(hundredths % 10)
          \o <<" ", "K", "B">>

\* useState({fileType: '', fileSize: '', keyInformations: [], ...})
InitialResults ==
    [fileType |-> "", fileSize |-> <<>>, keyInformations |-> <<>>,
     medicalTerms |-> <<>>, potentialConditions |-> <<>>,
     riskFactors |-> <<>>, recommendations |-> <<>>]

\* MEDICAL_TERMS.conditions.filter(term => lowerContent.includes(term.toLowerCase()))
matchedTerms(vocabulary, lowerContent) ==
    filter(vocabulary,
           {vocabulary[n] : n \in {m \in 1..Len(vocabulary) :
                                     includes(lowerContent, toLowerCase(vocabulary[m]))}})

\* the record handed to setAnalysisResults; threw when reportFile is null
performDetailedAnalysis(content, closureReportFile) ==
    LET lowerContent == toLowerCase(content)
        keyInformations == extractKeyInformations(content)
        medicalTerms == matchedTerms(MEDICAL_TERMS.conditions, lowerContent)
        potentialConditions ==
            [n \in 1..Len(medicalTerms) |->
                [name |-> medicalTerms[n],
                 confidence |-> calculateConfidence(lowerContent, medicalTerms[n])]]
        riskFactors == matchedTerms(MEDICAL_TERMS.riskFactors, lowerContent)
        recommendations == generateRecommendations(medicalTerms, riskFactors)
    IN  IF closureReportFile = null
        THEN [threw |-> TRUE, results |-> InitialResults]
        ELSE [threw |-> FALSE,
              results |->
                [fileType |-> FileType(closureReportFile),
                 fileSize |-> fileSizeKB(FileSize(closureReportFile)),
                 keyInformations |-> keyInformations,
                 medicalTerms |-> medicalTerms,
                 potentialConditions |-> potentialConditions,
                 riskFactors |-> riskFactors,
                 recommendations |-> recommendations]]

\* the files whose read can resolve with a content
Ingestible ==
    {f \in Files : readerFor(f) # "none" /\ ~(readerFor(f) = "excel" /\ Unreadable(f))}

\* content = await parse...(file), for each ingestible file
resolvedContent == [f \in Ingestible |-> parsedContent(f)]

\* performDetailedAnalysis(content) for the content of file f, run in a
\* render whose reportFile is rf
analysisOf ==
    [f \in Ingestible |->
        [rf \in Files \cup {null} |-> performDetailedAnalysis(resolvedContent[f], rf)]]

(***************************************************************************)
(* The component.                                                           *)
(***************************************************************************)
\* uploads one run of the model makes
MaxUploads == 3

VARIABLES
    reportFile,       \* useState(null): the file last selected
    fileContent,      \* useState(''): the content last parsed
    analysisResults,  \* useState({...}): the results last stored
    isAnalyzing,      \* useState(false)
    calls,            \* the invocations of parseFile, in order of upload
    probe             \* the input and output of a function applied on its own

vars == <<reportFile, fileContent, analysisResults, isAnalyzing, calls, probe>>

NoProbe == [fn |-> "none"]

Init ==
    /\ reportFile = null
    /\ fileContent = <<>>
    /\ analysisResults = InitialResults
    /\ isAnalyzing = FALSE
    /\ calls = <<>>
    /\ probe = NoProbe

\* handleFileUpload(event) with event.target.files[0] = f, and the part of
\* parseFile(f) that runs before its first await.  The closures of this
\* render (parseFile, performDetailedAnalysis) see the reportFile of the
\* render, not the one setReportFile sets.
handleFileUpload(f) ==
    /\ Len(calls) < MaxUploads
    /\ reportFile' = f
    /\ IF readerFor(f) = "none"
       THEN \* throw new Error('Unsupported file type...'); catch: alert; finally
            /\ isAnalyzing' = FALSE
            /\ calls' = Append(calls,
                  [file |-> f, closureReportFile |-> reportFile, reader |-> "none",
                   pc |-> "done", alert |-> "Unsupported file type",
                   analysed |-> FALSE, stored |-> FALSE, results |-> InitialResults])
       ELSE \* setIsAnalyzing(true); content = await parse...(file)
            /\ isAnalyzing' = TRUE
            /\ calls' = Append(calls,
                  [file |-> f, closureReportFile |-> reportFile, reader |-> readerFor(f),
                   pc |-> "reading", alert |-> "",
                   analysed |-> FALSE, stored |-> FALSE, results |-> InitialResults])
    /\ UNCHANGED <<fileContent, analysisResults, probe>>

\* the read of call k completes and its promise resolves: the rest of the
\* try block of parseFile, then finally
ReadResolves(k) ==
    /\ k \in 1..Len(calls)
    /\ calls[k].pc = "reading"
    /\ ~(calls[k].reader = "excel" /\ Unreadable(calls[k].file))
    /\ LET content == resolvedContent[calls[k].file]
           analysis == analysisOf[calls[k].file][calls[k].closureReportFile]
       IN  /\ fileContent' = content
           /\ IF analysis.threw
              THEN /\ UNCHANGED analysisResults
                   /\ calls' = [calls EXCEPT ![k].pc = "done", ![k].analysed = TRUE,
                                             ![k].alert = "TypeError"]
              ELSE /\ analysisResults' = analysis.results
                   /\ calls' = [calls EXCEPT ![k].pc = "done", ![k].analysed = TRUE,
                                             ![k].stored = TRUE,
                                             ![k].results = analysis.results]
    /\ isAnalyzing' = FALSE
    /\ UNCHANGED <<reportFile, probe>>

\* the read of call k fails: reader.onerror (or Papa's error) rejects, the
\* catch of parseFile alerts, then finally
ReadRejects(k) ==
    /\ k \in 1..Len(calls)
    /\ calls[k].pc = "reading"
    /\ calls' = [calls EXCEPT ![k].pc = "done", ![k].alert = "read error"]
    /\ isAnalyzing' = FALSE
    /\ UNCHANGED <<reportFile, fileContent, analysisResults, probe>>

\* the read of call k completes and XLSX.read throws inside reader.onload:
\* the exception leaves the event handler, the promise is never settled and
\* the await of parseFile never returns
ExcelOnloadThrows(k) ==
    /\ k \in 1..Len(calls)
    /\ calls[k].pc = "reading"
    /\ calls[k].reader = "excel"
    /\ Unreadable(calls[k].file)
    /\ calls' = [calls EXCEPT ![k].pc = "suspended"]
    /\ UNCHANGED <<reportFile, fileContent, analysisResults, isAnalyzing, probe>>

\* the end of the read of call k, whichever way it goes
ReadEnds(k) == ReadResolves(k) \/ ReadRejects(k) \/ ExcelOnloadThrows(k)

Next ==
    \/ \E f \in Files : handleFileUpload(f)
    \/ \E k \in 1..MaxUploads : ReadResolves(k)
    \/ \E k \in 1..MaxUploads : ReadRejects(k)
    \/ \E k \in 1..MaxUploads : ExcelOnloadThrows(k)

Spec == Init /\ [][Next]_vars

\* the browser ends every read it started, with a load or an error event
FairSpec == Spec /\ \A k \in 1..MaxUploads : WF_vars(ReadEnds(k))

\* the branch of the conditional rendering the component returns
view ==
    IF isAnalyzing THEN "analyzing"
    ELSE IF Len(analysisResults.medicalTerms) > 0 THEN "panel"
    ELSE IF reportFile # null THEN "nothing found"
    ELSE "blank"

(***************************************************************************)
(* The analyzer's functions applied on their own: the inputs are drawn by   *)
(* the initial state, one action applies the function.                      *)
(***************************************************************************)
\* pieces a content is concatenated from in AnalysisSpec
MaxParts == 7

ContentBlocks == { <<"A","s","t","h","m","a">>, <<"s","t","h","m","a">>, <<" ","C","a","n","c","e","r"," ">> }

\* the concatenations of at most n blocks
RECURSIVE Concatenations(_)
Concatenations(n) ==
    IF n = 0 THEN {<<>>}
    ELSE LET shorter == Concatenations(n - 1)
         IN  shorter \cup {c \o b : c \in shorter,
                                    b \in ContentBlocks}

\* the lists filter can return on a vocabulary: its sublists, in its order
SubLists(vocabulary) ==
    {filter(vocabulary, {vocabulary[i] : i \in S}) : S \in SUBSET (1..Len(vocabulary))}

AnalysisProbes ==
    {[fn |-> "performDetailedAnalysis", content |-> c,
      done |-> FALSE, output |-> InitialResults] : c \in Concatenations(MaxParts)}

RecommendationProbes ==
    {[fn |-> "generateRecommendations", conditions |-> c, riskFactors |-> r,
      done |-> FALSE, output |-> <<>>] :
        c \in SubLists(MEDICAL_TERMS.conditions), r \in SubLists(MEDICAL_TERMS.riskFactors)}

ComponentIdle ==
    /\ reportFile = "report"
    /\ fileContent = <<>>
    /\ analysisResults = InitialResults
    /\ isAnalyzing = FALSE
    /\ calls = <<>>

AnalysisInit ==
    /\ ComponentIdle
    /\ probe \in AnalysisProbes \cup RecommendationProbes

\* performDetailedAnalysis(content) in a render whose reportFile is a file
ApplyAnalysis ==
    /\ probe.fn = "performDetailedAnalysis"
    /\ ~probe.done
    /\ probe' = [probe EXCEPT !.done = TRUE,
                    !.output = performDetailedAnalysis(probe.content, reportFile).results]
    /\ UNCHANGED <<reportFile, fileContent, analysisResults, isAnalyzing, calls>>

ApplyRecommendations ==
    /\ probe.fn = "generateRecommendations"
    /\ ~probe.done
    /\ probe' = [probe EXCEPT !.done = TRUE,
                    !.output = generateRecommendations(probe.conditions, probe.riskFactors)]
    /\ UNCHANGED <<reportFile, fileContent, analysisResults, isAnalyzing, calls>>

AnalysisNext == ApplyAnalysis \/ ApplyRecommendations

AnalysisSpec == AnalysisInit /\ [][AnalysisNext]_vars

\* the values written after the four labels in KeySpec
LineValues ==
    << { <<"J","a","n","e"," ","D","o","e">>, <<"A","n","n"," ","P","a","g","e"," ","3">>,
         <<"B","o"," "," ">>, <<" ">> },
       { <<"4","7">>, <<"5">> },
       { <<"F","e","m","a","l","e">>, <<"M">> },
       { <<"0","4","/","0","2","/","1","9","9","0">>, <<"4","-","2","-","9","0">> } >>

\* the text of labelled line n with value v: 'Label: v'
LabelledLine(n, v) == keyPatternLabels[n] \o <<":", " ">> \o v

\* the content made of the lines in present, in the order of the labels
LinesContent(present, values) ==
    join(filter([n \in 1..4 |-> LabelledLine(n, values[n])],
                {LabelledLine(n, values[n]) : n \in present}),
         <<"\n">>)

KeyProbes ==
    {[fn |-> "extractKeyInformations", present |-> p, values |-> <<a, b, c, d>>,
      content |-> LinesContent(p, <<a, b, c, d>>), done |-> FALSE, output |-> <<>>] :
        p \in SUBSET (1..4),
        a \in LineValues[1], b \in LineValues[2],
        c \in LineValues[3], d \in LineValues[4]}

KeyInit ==
    /\ ComponentIdle
    /\ probe \in KeyProbes

ApplyExtract ==
    /\ probe.fn = "extractKeyInformations"
    /\ ~probe.done
    /\ probe' = [probe EXCEPT !.done = TRUE,
                    !.output = extractKeyInformations(probe.content)]
    /\ UNCHANGED <<reportFile, fileContent, analysisResults, isAnalyzing, calls>>

KeyNext == ApplyExtract

KeySpec == KeyInit /\ [][KeyNext]_vars

(***************************************************************************)
(* The claims about the component (Spec, FairSpec).                         *)
(***************************************************************************)
Reading == {k \in 1..Len(calls) : calls[k].pc = "reading"}

\* the alerts of a failed ingestion: the switch's default, a failed read
IngestionAlerts == {"Unsupported file type", "read error"}

\* C1: whenever the ingestion of an upload succeeded (its read resolved and
\* performDetailedAnalysis was called), no alert was shown for it and the
\* AnalysisResult of its content, with the file's own type and size, was
\* stored; this includes the first upload after the component mounts.
C1_AnalysisStageIsTotal ==
    \A k \in 1..Len(calls) :
        calls[k].analysed =>
            /\ calls[k].alert = ""
            /\ calls[k].stored
            /\ calls[k].results = analysisOf[calls[k].file][calls[k].file].results

\* upload k has finished: isAnalyzing is false and a result was stored or
\* an alert was shown for it
Finished(k) ==
    /\ k <= Len(calls)
    /\ calls[k].pc = "done"
    /\ ~isAnalyzing
    /\ (calls[k].stored \/ calls[k].alert # "")

\* C2: every upload, whichever way its read and parse go, eventually
\* finishes with isAnalyzing false and either a stored result or an alert.
C2_EveryUploadFinishes ==
    \A k \in 1..MaxUploads : (k <= Len(calls)) ~> Finished(k)

\* C3: at most one upload is in flight at a time, and once no read is
\* pending fileContent and analysisResults are those of the most recently
\* selected file (the one in reportFile), when its analysis stored a result.
C3_NewUploadReplacesPriorState ==
    /\ Cardinality(Reading) <= 1
    /\ (Reading = {} /\ Len(calls) > 0 /\ calls[Len(calls)].stored) =>
          /\ calls[Len(calls)].file = reportFile
          /\ fileContent = resolvedContent[reportFile]
          /\ analysisResults = calls[Len(calls)].results

\* C4: two uploads of the same file that each stored an AnalysisResult
\* stored the same one, whatever was uploaded before either of them.
C4_SameFileSameResult ==
    \A j, k \in 1..Len(calls) :
        (calls[j].file = calls[k].file /\ calls[j].stored /\ calls[k].stored) =>
            calls[j].results = calls[k].results

\* C5: when the ingestion of the most recent upload has failed and no read
\* is pending, no AnalysisResult stored by an earlier upload is left in
\* analysisResults beside the new reportFile.
C5_FailedUploadKeepsNoEarlierResult ==
    LET n == Len(calls)
    IN  (n > 0 /\ calls[n].alert \in IngestionAlerts /\ Reading = {}) =>
            ~ \E j \in 1..(n - 1) : calls[j].stored /\ analysisResults = calls[j].results

\* the extension as the claim reads it: the lower-cased text after the last
\* '.' of the name, and no extension (the empty text) for a name without '.'
ExtensionAfterLastDot(name) ==
    LET dots == {i \in 1..Len(name) : name[i] = "."}
    IN  IF dots = {} THEN <<>>
        ELSE toLowerCase(SubSeq(name, (CHOOSE i \in dots : \A j \in dots : i >= j) + 1,
                                Len(name)))

\* the reading of an upload agrees with the extension ext of its file: one
\* of the four starts the matching reader, any other gets the
\* unsupported-file-type alert, starts no read and is never analysed
DispatchedBy(k, ext) ==
    CASE ext = <<"t","x","t">> -> calls[k].reader = "text"
      [] ext = <<"c","s","v">> -> calls[k].reader = "csv"
      [] ext \in {<<"x","l","s","x">>, <<"x","l","s">>} -> calls[k].reader = "excel"
      [] OTHER -> /\ calls[k].reader = "none"
                  /\ calls[k].alert = "Unsupported file type"
                  /\ calls[k].pc = "done"
                  /\ ~calls[k].analysed

\* C6 as stated: every upload is dispatched by the text after the last '.'
\* of its name, in any letter case; a name with no '.' has no such text and
\* so none of the four extensions.
C6_DispatchByTextAfterLastDot ==
    \A k \in 1..Len(calls) :
        DispatchedBy(k, ExtensionAfterLastDot(FileName(calls[k].file)))

\* the text after the last '.' of the name, or the whole name when it has
\* no '.', lower-cased
ExtensionOrWholeName(name) ==
    IF \E i \in 1..Len(name) : name[i] = "."
    THEN ExtensionAfterLastDot(name)
    ELSE toLowerCase(name)

\* C6 (amended): every upload is dispatched by the text after the last '.'
\* of its name, or by its whole name when the name has no '.', in any
\* letter case: one of txt, csv, xlsx, xls starts the matching reader, any
\* other gets the unsupported-file-type alert, starts no read and is never
\* analysed.
C6_DispatchByExtensionOrWholeName ==
    \A k \in 1..Len(calls) :
        DispatchedBy(k, ExtensionOrWholeName(FileName(calls[k].file)))

\* C6 witness: an upload named with an upper-case .TXT was read as text, one
\* named .pdf was refused without a read, one with two dots was read as csv.
C6_Witness ==
    \E i, j, k \in 1..Len(calls) :
        /\ calls[i].file = "NOTES" /\ calls[i].reader = "text" /\ calls[i].pc = "done"
        /\ calls[j].file = "scan" /\ calls[j].alert = "Unsupported file type"
        /\ ~calls[j].analysed
        /\ calls[k].file = "data" /\ calls[k].reader = "csv"

\* C10: whenever an AnalysisResult has been stored, isAnalyzing is false and
\* no read is pending, the view is the four-section panel, also for a result
\* with risk factors but no conditions and for one with no match at all.
C10_StoredResultShowsPanel ==
    (~isAnalyzing /\ Reading = {} /\ analysisResults # InitialResults) => view = "panel"

(***************************************************************************)
(* The claims about the analyzer's functions (AnalysisSpec, KeySpec).       *)
(***************************************************************************)
\* the positions of content where term stands, in any letter case
Occurrences(content, term) ==
    {i \in 1..Len(content) : MatchAtIgnoreCase(content, term, i)}

\* the occurrences a left-to-right reader counts when an occurrence that
\* overlaps the one counted before it is not counted again
NonOverlapping(content, term) ==
    LET occ == Occurrences(content, term)
        counted[i \in 0..Len(content)] ==
            IF i = 0 THEN FALSE
            ELSE /\ i \in occ
                 /\ \A j \in 1..(i - 1) : (i - j < Len(term)) => ~counted[j]
    IN  {i \in occ : counted[i]}

AnalysisDone == probe.fn = "performDetailedAnalysis" /\ probe.done

\* C7 as stated: each stored confidence is min(20 * n, 100) with n the
\* number of places where the term occurs in the content, in any case.
C7_ConfidenceOfAllOccurrences ==
    AnalysisDone =>
        \A n \in 1..Len(probe.output.potentialConditions) :
            LET c == probe.output.potentialConditions[n]
            IN  c.confidence =
                  Min(20 * Cardinality(Occurrences(probe.content, c.name)), 100)

\* C7 (amended): each stored confidence is min(20 * n, 100) with n the
\* number of non-overlapping occurrences of the term in the content, in any
\* case, counted left to right; it lies in 0..100, and the conditions
\* stored are exactly the vocabulary terms that occur.
C7_ConfidenceOfNonOverlappingOccurrences ==
    AnalysisDone =>
        /\ \A n \in 1..Len(probe.output.potentialConditions) :
            LET c == probe.output.potentialConditions[n]
            IN  /\ c.confidence =
                     Min(20 * Cardinality(NonOverlapping(probe.content, c.name)), 100)
                /\ c.confidence \in 0..100
                /\ c.name = probe.output.medicalTerms[n]
        /\ Len(probe.output.potentialConditions) = Len(probe.output.medicalTerms)
        /\ {probe.output.medicalTerms[n] : n \in 1..Len(probe.output.medicalTerms)} =
             {MEDICAL_TERMS.conditions[m] : m \in
                 {x \in 1..Len(MEDICAL_TERMS.conditions) :
                    Occurrences(probe.content, MEDICAL_TERMS.conditions[x]) # {}}}

\* C7 witness: a term that occurs six times or more is stored with
\* confidence 100, beside a second term with fewer occurrences.
C7_Witness ==
    /\ AnalysisDone
    /\ \E n, m \in 1..Len(probe.output.potentialConditions) :
          /\ Cardinality(NonOverlapping(probe.content,
                                        probe.output.potentialConditions[n].name)) >= 6
          /\ probe.output.potentialConditions[n].confidence = 100
          /\ probe.output.potentialConditions[m].confidence < 100

\* the lines of a recommendations list that are the sentence named kind
LinesOf(recommendations, kind) ==
    {i \in 1..Len(recommendations) : recommendations[i].line = kind}

\* no term of either vocabulary occurs in content, in any letter case
NoVocabularyTerm(content) ==
    /\ \A n \in 1..Len(MEDICAL_TERMS.conditions) :
          Occurrences(content, MEDICAL_TERMS.conditions[n]) = {}
    /\ \A n \in 1..Len(MEDICAL_TERMS.riskFactors) :
          Occurrences(content, MEDICAL_TERMS.riskFactors[n]) = {}

\* C8: generateRecommendations returns one specialist line iff conditions is
\* non-empty, the lifestyle line and the check-up line iff risk factors is
\* non-empty, the default line iff both are empty, and nothing else; content
\* with no vocabulary term is analysed to no terms, no risk factors and the
\* default recommendation alone.
C8_RecommendationLines ==
    /\ (probe.fn = "generateRecommendations" /\ probe.done) =>
          LET one(b) == IF b THEN 1 ELSE 0
              out == probe.output
          IN  /\ Cardinality(LinesOf(out, "specialist")) = one(probe.conditions # <<>>)
              /\ Cardinality(LinesOf(out, "lifestyle")) = one(probe.riskFactors # <<>>)
              /\ Cardinality(LinesOf(out, "checkup")) = one(probe.riskFactors # <<>>)
              /\ Cardinality(LinesOf(out, "none")) =
                    one(probe.conditions = <<>> /\ probe.riskFactors = <<>>)
              /\ Len(out) = one(probe.conditions # <<>>) + 2 * one(probe.riskFactors # <<>>)
                              + one(probe.conditions = <<>> /\ probe.riskFactors = <<>>)
    /\ (AnalysisDone /\ NoVocabularyTerm(probe.content)) =>
          /\ probe.output.medicalTerms = <<>>
          /\ probe.output.riskFactors = <<>>
          /\ probe.output.recommendations = << [line |-> "none", list |-> <<>>] >>

\* C8 witness: conditions but no risk factors give the specialist line alone.
C8_Witness ==
    /\ probe.fn = "generateRecommendations"
    /\ probe.done
    /\ Len(probe.conditions) > 1
    /\ probe.riskFactors = <<>>
    /\ Len(probe.output) = 1
    /\ probe.output[1].line = "specialist"

KeyDone == probe.fn = "extractKeyInformations" /\ probe.done

\* the four entries come in the order Patient Name, Age, Gender, Date
FourEntriesInOrder(output) ==
    /\ Len(output) = 4
    /\ \A n \in 1..4 : output[n].label = keyPatternLabels[n]

\* entry n holds the text written after its own label, trimmed, or
\* 'Not Found' when its line is absent
OwnValue(n) ==
    probe.output[n].value =
        IF n \in probe.present THEN trim(probe.values[n]) ELSE NotFound

FreeOfLabelWords(v) ==
    \A w \in {<<"p","a","t","i","e","n","t">>, <<"a","g","e">>, <<"g","e","n","d","e","r">>, <<"d","a","t","e">>} : Occurrences(v, w) = {}

\* the values written in the content are not blank and hold none of the
\* words the patterns start with
PlainValues ==
    \A n \in probe.present :
        FreeOfLabelWords(probe.values[n]) /\ trim(probe.values[n]) # <<>>

====
